---------------------------- MODULE Spec2Model ----------------------------
(***************************************************************************)
(* Token lifecycle of the Xero OAuth dashboard (server.js and its          *)
(* BASE_PATH variant): the token file, the shared XeroClient token slot,   *)
(* getStatus() and the route handlers that use them.                       *)
(*                                                                         *)
(* A JS object is a function from a set of field names to integers.  A     *)
(* string value is an integer too: 0 is the empty string '', a token       *)
(* string is the positive number of the grant that minted it.              *)
(* The content of the token file is a sequence of symbols, so that         *)
(* JSON.stringify and JSON.parse are conversions and not the identity.     *)
(***************************************************************************)
EXTENDS Integers, Sequences, FiniteSets, TLC

\* ------------------------------------------------------------------ bounds
MaxTime == 1            \* the clock runs from 0 to MaxTime
MaxRequests == 2        \* request handlers that may be in flight together
MaxGrants == 3          \* grants the authorization server issues in a run
TokenLifetime == 1      \* ticks a token minted by the server stays unexpired

\* ------------------------------------------------------------ JS values
Null == [null |-> 0]

Fields == <<"access_token", "refresh_token", "expires_at", "saved_at">>

\* a JS value used as a condition: undefined (absent), '' and 0 are falsy
Truthy(obj, f) == obj # Null /\ f \in DOMAIN obj /\ obj[f] # 0

\* ------------------------------------------------------- file content
Ws == [t |-> "ws", k |-> "", v |-> 0]
LBrace == [t |-> "{", k |-> "", v |-> 0]
RBrace == [t |-> "}", k |-> "", v |-> 0]
Junk == [t |-> "junk", k |-> "", v |-> 0]
Member(key, val) == [t |-> "member", k |-> key, v |-> val]

RECURSIVE StripWs(_)
StripWs(s) ==
  IF s = <<>> THEN <<>>
  ELSE IF Head(s) = Ws THEN StripWs(Tail(s))
  ELSE <<Head(s)>> \o StripWs(Tail(s))

RECURSIVE TrimLeft(_)
TrimLeft(s) == IF s # <<>> /\ Head(s) = Ws THEN TrimLeft(Tail(s)) ELSE s

RECURSIVE TrimRight(_)
TrimRight(s) ==
  IF s # <<>> /\ s[Len(s)] = Ws THEN TrimRight(SubSeq(s, 1, Len(s) - 1)) ELSE s

\* String.prototype.trim
Trim(s) == TrimRight(TrimLeft(s))

RECURSIVE MembersOf(_, _)
MembersOf(obj, i) ==
  IF i > Len(Fields) THEN <<>>
  ELSE IF Fields[i] \in DOMAIN obj
       THEN <<Ws, Member(Fields[i], obj[Fields[i]])>> \o MembersOf(obj, i + 1)
       ELSE MembersOf(obj, i + 1)

\* JSON.stringify(data, null, 2): '{}' for an object without properties,
\* otherwise every member on its own indented line
Stringify(obj) ==
  IF DOMAIN obj = {} THEN <<LBrace, RBrace>>
  ELSE <<LBrace>> \o MembersOf(obj, 1) \o <<Ws, RBrace>>

\* the object a sequence of members denotes; a repeated key keeps its last value
ObjectOf(ms) ==
  [key \in {ms[i].k : i \in DOMAIN ms} |->
     ms[CHOOSE i \in DOMAIN ms :
          /\ ms[i].k = key
          /\ \A j \in DOMAIN ms : ms[j].k = key => j <= i].v]

\* JSON.parse: [threw, val]; whitespace between tokens is insignificant
JSONParse(s) ==
  LET toks == StripWs(s)
      n == Len(toks)
  IN IF /\ n >= 2
        /\ toks[1] = LBrace
        /\ toks[n] = RBrace
        /\ \A i \in 2..(n - 1) : toks[i].t = "member"
     THEN [threw |-> FALSE, val |-> ObjectOf(SubSeq(toks, 2, n - 1))]
     ELSE [threw |-> TRUE, val |-> Null]

\* ------------------------------------------------------- Token persistence
NoFile == [exists |-> FALSE, content |-> <<>>]
FileWith(c) == [exists |-> TRUE, content |-> c]

\* { ...tokenSet, saved_at: new Date().toISOString() }
Stamp(tokenSet, time) ==
  [f \in DOMAIN tokenSet \cup {"saved_at"} |->
     IF f = "saved_at" THEN time ELSE tokenSet[f]]

\* saveTokens that builds the record and never writes it
SaveTokensTryUnwritten(f, tokenSet, time, writeOk) ==
  IF writeOk
  THEN [threw |-> FALSE, val |-> Stamp(tokenSet, time), file |-> f]
  ELSE [threw |-> TRUE, val |-> Null, file |-> f]

\* saveTokens that merges the record into the one the file holds
SaveTokensTryMerged(f, tokenSet, time, writeOk) ==
  LET old == IF f.exists /\ ~JSONParse(f.content).threw
             THEN JSONParse(f.content).val ELSE [x \in {} |-> 0]
      new == Stamp(tokenSet, time)
      data == [x \in DOMAIN old \cup DOMAIN new |->
                 IF x \in DOMAIN new THEN new[x] ELSE old[x]]
  IN IF writeOk
     THEN [threw |-> FALSE, val |-> new, file |-> FileWith(Stringify(data))]
     ELSE [threw |-> TRUE, val |-> Null, file |-> f]

\* saveTokens that keeps the refresh token of the record the file holds
SaveTokensTryKeepsRefresh(f, tokenSet, time, writeOk) ==
  LET old == IF f.exists /\ ~JSONParse(f.content).threw
             THEN JSONParse(f.content).val ELSE [x \in {} |-> 0]
      new == Stamp(tokenSet, time)
      data == [x \in DOMAIN new |->
                 IF x = "refresh_token" /\ x \in DOMAIN old THEN old[x] ELSE new[x]]
  IN IF writeOk
     THEN [threw |-> FALSE, val |-> new, file |-> FileWith(Stringify(data))]
     ELSE [threw |-> TRUE, val |-> Null, file |-> f]

\* the try block of saveTokens
SaveTokensTry(f, tokenSet, time, writeOk) ==
  IF writeOk
  THEN [threw |-> FALSE, val |-> Stamp(tokenSet, time),
        file |-> FileWith(Stringify(Stamp(tokenSet, time)))]
  ELSE [threw |-> TRUE, val |-> Null, file |-> f]

\* saveTokens without its catch block
SaveTokensUncaught(f, tokenSet, time, writeOk) ==
  SaveTokensTry(f, tokenSet, time, writeOk)

\* saveTokens: [threw, val, file]
SaveTokens(f, tokenSet, time, writeOk) ==
  LET body == SaveTokensTry(f, tokenSet, time, writeOk)
  IN IF body.threw THEN [threw |-> FALSE, val |-> Null, file |-> body.file]
     ELSE body

\* loadTokens that parses whatever the file holds
LoadTokensTryUnchecked(f, readOk) ==
  IF f.exists
  THEN IF ~readOk THEN [threw |-> TRUE, val |-> Null]
       ELSE JSONParse(f.content)
  ELSE [threw |-> FALSE, val |-> Null]

\* the try block of loadTokens
LoadTokensTry(f, readOk) ==
  IF f.exists
  THEN IF ~readOk THEN [threw |-> TRUE, val |-> Null]
       ELSE IF \/ f.content = <<>>
               \/ Trim(f.content) = <<>>
               \/ Trim(f.content) = <<LBrace, RBrace>>
            THEN [threw |-> FALSE, val |-> Null]
            ELSE JSONParse(f.content)
  ELSE [threw |-> FALSE, val |-> Null]

\* loadTokens without its catch block
LoadTokensUncaught(f, readOk) == LoadTokensTry(f, readOk)

\* loadTokens: [threw, val]
LoadTokens(f, readOk) ==
  LET body == LoadTokensTry(f, readOk)
  IN IF body.threw THEN [threw |-> FALSE, val |-> Null] ELSE body

\* deleteTokens that leaves the file as it finds it
DeleteTokensTryUnwritten(f, writeOk) == [threw |-> FALSE, file |-> f]

\* deleteTokens that removes the file
DeleteTokensTryUnlinked(f, writeOk) ==
  IF f.exists
  THEN IF writeOk THEN [threw |-> FALSE, file |-> NoFile]
       ELSE [threw |-> TRUE, file |-> f]
  ELSE [threw |-> FALSE, file |-> f]

\* the try block of deleteTokens
DeleteTokensTry(f, writeOk) ==
  IF f.exists
  THEN IF writeOk THEN [threw |-> FALSE, file |-> FileWith(<<LBrace, RBrace>>)]
       ELSE [threw |-> TRUE, file |-> f]
  ELSE [threw |-> FALSE, file |-> f]

\* deleteTokens: [threw, file]
DeleteTokens(f, writeOk) ==
  LET body == DeleteTokensTry(f, writeOk)
  IN IF body.threw THEN [threw |-> FALSE, file |-> body.file] ELSE body

\* ------------------------------------------------------------ token sets
\* the token set of grant g as the authorization server issues it at time
TokenSetOf(g, time) ==
  [access_token |-> g, refresh_token |-> g, expires_at |-> time + TokenLifetime]

\* records a token file can hold when the server starts
StoredRecords ==
  { Stamp(TokenSetOf(1, 0), 0),
    Stamp([access_token |-> 1, refresh_token |-> 1, expires_at |-> 0], 0),
    Stamp([access_token |-> 1, expires_at |-> 0], 0),
    Stamp([access_token |-> 0, refresh_token |-> 1, expires_at |-> 1], 0),
    [refresh_token |-> 1, expires_at |-> 1] }

\* token files the server can find when it starts
StartFiles ==
  {NoFile}
  \cup {FileWith(c) : c \in {<<>>, <<Ws>>, <<LBrace, RBrace>>,
                              <<Ws, LBrace, RBrace, Ws>>, <<LBrace, Ws, RBrace>>,
                              <<LBrace, Junk>>}}
  \cup {FileWith(Stringify(r)) : r \in StoredRecords}

\* what tenant discovery can answer: tenantId and tenantName are the number
\* of the tenant (0 stands for null and for '')
TenantRef(i) == [tenantId |-> i, tenantName |-> i]
TenantLists == {<<>>, <<TenantRef(2), TenantRef(1)>>}

\* a client for which every token set is expired
ExpiredAlways(ts, time) == TRUE

\* a client for which no token set is expired
ExpiredNever(ts, time) == FALSE

\* TokenSet.expired(): expires_in = max(expires_at - now, 0) is 0; a token
\* set without expires_at is never expired
Expired(ts, time) == "expires_at" \in DOMAIN ts /\ ts.expires_at - time <= 0

Builds == {"server.js", "part_000"}
Reqs == 1..MaxRequests

VARIABLES
  file,      \* TOKEN_FILE: [exists, content]
  now,       \* the clock
  last,      \* the last call of a store operation made on its own
  build,     \* which of the two server files runs
  tokenSet,  \* xero.tokenSet, the client's token slot shared by all requests
  minted,    \* grants the authorization server has issued
  req,       \* the request handlers: req[r] is the request handler r runs
  serial,    \* TRUE when the requests of the run do not overlap
  prev       \* the getStatus() that returned in the last step, if one did

vars == <<file, now, last, build, tokenSet, minted, req, serial, prev>>

server == <<build, tokenSet, minted, req, serial, prev>>


\* -------------------------------------------------------- request state
NoDiscovery == [state |-> "none", list |-> <<>>]

\* { connected, tenantId, tenantName, tokens }
ConnectionStatus(c, id, name, toks) ==
  [connected |-> c, tenantId |-> id, tenantName |-> name, tokens |-> toks]

NoStatus == ConnectionStatus(FALSE, 0, 0, Null)

NoPrev ==
  [valid |-> FALSE, clean |-> FALSE, status |-> NoStatus, discovery |-> NoDiscovery]

\* The log of a handler: what its last getStatus() did, the file when the
\* request arrived (file0) and when that getStatus() was called (store0), and
\* the getStatus() that returned right before it was called (prev); ioFailed
\* says that a read or a write of the file failed in it; slot0 and at are the
\* client's token slot and the time when that getStatus() was called; nApi
\* counts the accounting API calls the request has issued and apiTenant is
\* the tenantId it passed to them.  It is kept in serial runs.
NoLog ==
  [returned |-> FALSE, escaped |-> FALSE, needRefresh |-> FALSE,
   nRefresh |-> 0, refreshOk |-> FALSE, nSave |-> 0, saveRet |-> Null,
   nDiscover |-> 0, discovery |-> NoDiscovery, clientThrew |-> FALSE,
   ioFailed |-> FALSE, file0 |-> NoFile, store0 |-> NoFile, prev |-> NoPrev,
   slot0 |-> Null, at |-> 0, nApi |-> 0, apiTenant |-> 0]

\* A handler: its route, where it waits, the locals of its getStatus() call
\* (tokens, newTokenSet, status), the token set it installed in the client,
\* and the client's token set when it issued its last call (sent).
IdleRequest ==
  [route |-> "none", pc |-> "idle", phase |-> "main", apiLeft |-> 0,
   tokens |-> Null, installed |-> Null, newTokenSet |-> Null,
   status |-> NoStatus, sent |-> Null, response |-> "none", log |-> NoLog]

ServerStart ==
  /\ build \in Builds
  /\ tokenSet = Null
  /\ minted = 1
  /\ req = [r \in Reqs |-> IdleRequest]
  /\ prev = NoPrev

\* ------------------------------------------- the store operations alone
NoCall == [op |-> "none", arg |-> Null, before |-> NoFile, at |-> 0,
           ok |-> TRUE, threw |-> FALSE, ret |-> Null]

\* a call and the call made right before it
Called(call, before) == [call |-> call, prior |-> before]

\* records handed to saveTokens
SavedRecords == StoredRecords \cup {TokenSetOf(2, now), [f \in {} |-> 0]}

StoreInit ==
  /\ file \in StartFiles
  /\ now = 0
  /\ last = Called(NoCall, NoCall)
  /\ serial = TRUE
  /\ ServerStart

StoreSave ==
  \E r \in SavedRecords, ok \in BOOLEAN :
    LET res == SaveTokens(file, r, now, ok)
    IN /\ file' = res.file
       /\ last' = Called([op |-> "save", arg |-> r, before |-> file, at |-> now,
                          ok |-> ok, threw |-> res.threw, ret |-> res.val],
                         last.call)
       /\ now' = now
       /\ UNCHANGED server

StoreLoad ==
  \E ok \in BOOLEAN :
    LET res == LoadTokens(file, ok)
    IN /\ last' = Called([op |-> "load", arg |-> Null, before |-> file, at |-> now,
                          ok |-> ok, threw |-> res.threw, ret |-> res.val],
                         last.call)
       /\ UNCHANGED <<file, now>>
       /\ UNCHANGED server

StoreClear ==
  \E ok \in BOOLEAN :
    LET res == DeleteTokens(file, ok)
    IN /\ file' = res.file
       /\ last' = Called([op |-> "clear", arg |-> Null, before |-> file, at |-> now,
                          ok |-> ok, threw |-> res.threw, ret |-> Null],
                         last.call)
       /\ now' = now
       /\ UNCHANGED server

StoreTick ==
  /\ now < MaxTime
  /\ now' = now + 1
  /\ last' = Called(NoCall, NoCall)
  /\ file' = file
  /\ UNCHANGED server

StoreNext == StoreSave \/ StoreLoad \/ StoreClear \/ StoreTick

StoreSpec == StoreInit /\ [][StoreNext]_vars

\* ------------------------------------------------------------- the server
\* The code between two awaits on the network runs without interruption, so
\* an action is one handler's code from one await to the next.

\* a getStatus() returned in the step that takes request r to rq
Returns(r, rq) ==
  rq.log.returned /\ (~req[r].log.returned \/ req[r].phase # rq.phase)

\* a step of request r that takes it to rq
Step(r, rq) ==
  /\ req' = [req EXCEPT ![r] = IF serial THEN rq ELSE [rq EXCEPT !.log = NoLog]]
  /\ prev' = IF serial /\ Returns(r, rq)
             THEN [valid |-> TRUE,
                   clean |-> ~rq.log.clientThrew /\ ~rq.log.ioFailed,
                   status |-> rq.status, discovery |-> rq.log.discovery]
             ELSE NoPrev

\* getStatus that reports a connection without an access token
InitialStatusConnected(tokens) == ConnectionStatus(TRUE, 0, 0, tokens)

\* getStatus, no access token: connected, tenantId and tenantName as
\* initialised, tokens as loaded
InitialStatus(tokens) == ConnectionStatus(FALSE, 0, 0, tokens)

\* a catch block that leaves connected as it is when the tenants are there
CatchStatusConnected(tokens) == ConnectionStatus(TRUE, 0, 0, tokens)

\* getStatus, the catch block: connected = false, tenantId and tenantName as
\* initialised
CatchStatus(tokens) == ConnectionStatus(FALSE, 0, 0, tokens)

\* getStatus that does not test tenants.length
StatusOfTenantsUntested(tenants, tokens) ==
  IF Len(tenants) > 0
  THEN ConnectionStatus(TRUE, tenants[1].tenantId, tenants[1].tenantName, tokens)
  ELSE ConnectionStatus(TRUE, 0, 0, tokens)

\* getStatus, the tenants of updateTenants(): the first one, if there is one
StatusOfTenants(tenants, tokens) ==
  IF Len(tenants) > 0
  THEN ConnectionStatus(TRUE, tenants[1].tenantId, tenants[1].tenantName, tokens)
  ELSE ConnectionStatus(FALSE, 0, 0, tokens)

\* getStatus, the tokens it returns: the const it loaded at its start
StatusTokens(loaded, newTokenSet) == loaded

\* the accounting API calls of a report view: getOrganisations and
\* getInvoices for the dashboard, one call for the lists
ApiCalls(route) == IF route = "dashboard" THEN 2 ELSE 1

\* an exception left getStatus(): the pages answer with their fallback
\* render, the other callers have no handler for it
Escape(rq) ==
  [rq EXCEPT !.log.escaped = TRUE, !.pc = "done",
             !.response = IF rq.route = "page" THEN "render" ELSE "uncaught"]

\* a report view that calls the API whatever getStatus() returned
ContinueUnguarded(rq, st, slot) ==
  LET back == [rq EXCEPT !.log.returned = TRUE, !.status = st]
  IN IF rq.phase = "error"
     THEN [back EXCEPT !.pc = "done", !.response = "error_page"]
     ELSE IF rq.route = "page"
     THEN [back EXCEPT !.pc = "done", !.response = "render"]
     ELSE [back EXCEPT !.pc = "api", !.apiLeft = ApiCalls(rq.route), !.sent = slot,
                       !.log.nApi = @ + 1, !.log.apiTenant = st.tenantId]

\* a catch block that answers like the route does: with a redirect to the
\* login when the status is not connected
ContinueErrorRedirect(rq, st, slot) ==
  LET back == [rq EXCEPT !.log.returned = TRUE, !.status = st]
  IN IF rq.route = "page"
     THEN [back EXCEPT !.pc = "done", !.response = "render"]
     ELSE IF st.connected /\ rq.phase = "error"
     THEN [back EXCEPT !.pc = "done", !.response = "error_page"]
     ELSE IF st.connected
     THEN [back EXCEPT !.pc = "api", !.apiLeft = ApiCalls(rq.route), !.sent = slot,
                       !.log.nApi = @ + 1, !.log.apiTenant = st.tenantId]
     ELSE [back EXCEPT !.pc = "done", !.response = "redirect_login"]

\* getStatus() returned st to its caller, which runs to its next await: a
\* report view issues its first API call with status.tenantId
Continue(rq, st, slot) ==
  LET back == [rq EXCEPT !.log.returned = TRUE, !.status = st]
  IN IF rq.phase = "error"
     THEN [back EXCEPT !.pc = "done", !.response = "error_page"]
     ELSE IF rq.route = "page"
     THEN [back EXCEPT !.pc = "done", !.response = "render"]
     ELSE IF st.connected
     THEN [back EXCEPT !.pc = "api", !.apiLeft = ApiCalls(rq.route), !.sent = slot,
                       !.log.nApi = @ + 1, !.log.apiTenant = st.tenantId]
     ELSE [back EXCEPT !.pc = "done", !.response = "redirect_login"]

\* getStatus() from its call to its first await, or to its return
GetStatusBegin(r, rq0, phase) ==
  \E readOk \in BOOLEAN, fault \in {"none", "install", "expiry"} :
    LET ld == LoadTokens(file, readOk)
        tokens == ld.val
        rq == [rq0 EXCEPT !.phase = phase, !.tokens = tokens,
                          !.installed = Null, !.newTokenSet = Null,
                          !.log = [NoLog EXCEPT
                                     !.file0 = rq0.log.file0,
                                     !.nApi = rq0.log.nApi,
                                     !.apiTenant = rq0.log.apiTenant,
                                     !.store0 = file,
                                     !.slot0 = tokenSet,
                                     !.at = now,
                                     !.ioFailed = file.exists /\ ~readOk,
                                     !.prev = IF phase = "main" THEN prev ELSE NoPrev]]
    IN /\ UNCHANGED <<file, minted>>
       /\ IF ld.threw
          THEN /\ fault = "none"
               /\ tokenSet' = tokenSet
               /\ Step(r, Escape(rq))
          ELSE IF ~Truthy(tokens, "access_token")
          THEN /\ fault = "none"
               /\ tokenSet' = tokenSet
               /\ Step(r, Continue(rq, InitialStatus(tokens), tokenSet))
          ELSE IF fault = "install"
          THEN /\ tokenSet' = tokenSet
               /\ Step(r, Continue([rq EXCEPT !.log.clientThrew = TRUE],
                                   CatchStatus(tokens), tokenSet))
          ELSE IF fault = "expiry"
          THEN /\ tokenSet' = tokens
               /\ Step(r, Continue([rq EXCEPT !.log.clientThrew = TRUE,
                                              !.installed = tokens],
                                   CatchStatus(tokens), tokens))
          ELSE IF Expired(tokens, now)
          THEN /\ tokenSet' = tokens
               /\ Step(r, [rq EXCEPT !.pc = "refreshing", !.sent = tokens,
                                     !.installed = tokens,
                                     !.log.needRefresh = TRUE,
                                     !.log.nRefresh = 1])
          ELSE /\ tokenSet' = tokens
               /\ Step(r, [rq EXCEPT !.pc = "tenants", !.sent = tokens,
                                     !.installed = tokens,
                                     !.log.nDiscover = 1])

\* A handler that has answered is cleared before anything else happens: its
\* answer and its log are there in the state in which it answers.
NoneDone == \A q \in Reqs : req[q].pc # "done"

Finish(r) ==
  /\ req[r].pc = "done"
  /\ req' = [req EXCEPT ![r] = IdleRequest]
  /\ UNCHANGED <<file, now, last, build, tokenSet, minted, serial, prev>>

\* a request arrives and takes the first free handler; in a serial run it
\* arrives when no other request is being handled
Arrives(r) ==
  /\ NoneDone
  /\ req[r].pc = "idle"
  /\ \A q \in Reqs : q < r => req[q].pc # "idle"
  /\ serial => \A q \in Reqs : req[q].pc = "idle"

Arrived(r, route) == [req[r] EXCEPT !.route = route, !.log.file0 = file]

\* GET /, /tokens, /settings
StartPage(r) ==
  /\ Arrives(r)
  /\ GetStatusBegin(r, Arrived(r, "page"), "main")
  /\ UNCHANGED <<now, last, build, serial>>

\* GET /dashboard, /invoices, /contacts, /accounts
StartReport(r) ==
  /\ Arrives(r)
  /\ \E route \in {"dashboard", "list"} :
       GetStatusBegin(r, Arrived(r, route), "main")
  /\ UNCHANGED <<now, last, build, serial>>

\* getStatus: await xero.refreshToken() settles
RefreshResponse(r) ==
  /\ NoneDone
  /\ req[r].pc = "refreshing"
  /\ \E ok \in BOOLEAN, writeOk \in BOOLEAN :
       LET rq == req[r]
           new == TokenSetOf(minted + 1, now)
           sv == SaveTokens(file, new, now, writeOk)
           saved == [rq EXCEPT !.newTokenSet = new, !.log.refreshOk = TRUE,
                               !.log.nSave = 1, !.log.saveRet = sv.val,
                               !.log.ioFailed = @ \/ ~writeOk]
       IN IF ok /\ Truthy(rq.sent, "refresh_token") /\ minted < MaxGrants
          THEN /\ minted' = minted + 1
               /\ tokenSet' = new
               /\ file' = sv.file
               /\ IF sv.threw
                  THEN Step(r, Continue([saved EXCEPT !.log.clientThrew = TRUE],
                                        CatchStatus(StatusTokens(rq.tokens, new)), new))
                  ELSE Step(r, [saved EXCEPT !.pc = "tenants", !.sent = new,
                                             !.log.nDiscover = 1])
          ELSE /\ ok /\ writeOk
               /\ UNCHANGED <<file, tokenSet, minted>>
               /\ Step(r, Continue([rq EXCEPT !.log.clientThrew = TRUE],
                                   CatchStatus(StatusTokens(rq.tokens, Null)), tokenSet))
  /\ UNCHANGED <<now, last, build, serial>>

\* getStatus: await xero.updateTenants() settles
TenantsResponse(r) ==
  /\ NoneDone
  /\ req[r].pc = "tenants"
  /\ \E fail \in BOOLEAN, list \in TenantLists :
       LET rq == req[r]
           toks == StatusTokens(rq.tokens, rq.newTokenSet)
       IN IF fail
          THEN /\ list = <<>>
               /\ Step(r, Continue([rq EXCEPT !.log.clientThrew = TRUE,
                                              !.log.discovery.state = "fail"],
                                   CatchStatus(toks), tokenSet))
          ELSE Step(r, Continue([rq EXCEPT !.log.discovery =
                                             [state |-> "ok", list |-> list]],
                                StatusOfTenants(list, toks), tokenSet))
  /\ UNCHANGED <<file, tokenSet, minted, now, last, build, serial>>

\* a report view: await xero.accountingApi.get...() settles
ApiResponse(r) ==
  /\ NoneDone
  /\ req[r].pc = "api"
  /\ \/ /\ req[r].apiLeft > 1
        /\ Step(r, [req[r] EXCEPT !.apiLeft = @ - 1, !.sent = tokenSet,
                                   !.log.nApi = @ + 1,
                                   !.log.apiTenant = req[r].status.tenantId])
        /\ UNCHANGED <<file, tokenSet, minted>>
     \/ /\ req[r].apiLeft = 1
        /\ Step(r, [req[r] EXCEPT !.apiLeft = 0, !.pc = "done", !.response = "render"])
        /\ UNCHANGED <<file, tokenSet, minted>>
     \/ GetStatusBegin(r, req[r], "error")
  /\ UNCHANGED <<now, last, build, serial>>

\* the catch block of the callback route: server.js renders the error page,
\* the other file calls renderError, which calls getStatus()
CallbackError(r) ==
  IF build = "server.js"
  THEN /\ Step(r, [req[r] EXCEPT !.pc = "done", !.response = "error_page"])
       /\ UNCHANGED <<file, tokenSet, minted>>
  ELSE GetStatusBegin(r, req[r], "error")

\* GET CALLBACK_PATH: xero.apiCallback(req.url) is called
StartCallback(r) ==
  /\ Arrives(r)
  /\ Step(r, [Arrived(r, "callback") EXCEPT !.pc = "exchange"])
  /\ UNCHANGED <<file, tokenSet, minted, now, last, build, serial>>

\* the callback route: await xero.apiCallback() settles
ExchangeResponse(r) ==
  /\ NoneDone
  /\ req[r].pc = "exchange"
  /\ \/ \E writeOk \in BOOLEAN :
          LET new == TokenSetOf(minted + 1, now)
              sv == SaveTokens(file, new, now, writeOk)
          IN /\ minted < MaxGrants
             /\ minted' = minted + 1
             /\ tokenSet' = new
             /\ file' = sv.file
             /\ Step(r, [req[r] EXCEPT !.pc = "cb_tenants", !.sent = new,
                                       !.newTokenSet = new,
                                       !.log.nSave = 1, !.log.saveRet = sv.val])
     \/ CallbackError(r)
  /\ UNCHANGED <<now, last, build, serial>>

\* the callback route: await xero.updateTenants() settles
CallbackTenantsResponse(r) ==
  /\ NoneDone
  /\ req[r].pc = "cb_tenants"
  /\ \/ /\ Step(r, [req[r] EXCEPT !.pc = "done", !.response = "redirect_home"])
        /\ UNCHANGED <<file, tokenSet, minted>>
     \/ CallbackError(r)
  /\ UNCHANGED <<now, last, build, serial>>

\* GET /refresh that goes on with any record the file holds
CanRefreshAnyRecord(tokens) == tokens # Null

\* GET /refresh: the negation of !tokens || !tokens.refresh_token
CanRefresh(tokens) == Truthy(tokens, "refresh_token")

\* GET /refresh, to its await
StartRefresh(r) ==
  /\ Arrives(r)
  /\ \E readOk \in BOOLEAN, fault \in {"none", "install"} :
       LET tokens == LoadTokens(file, readOk).val
           rq == [Arrived(r, "refresh") EXCEPT !.tokens = tokens,
                                               !.log.store0 = file,
                                               !.log.slot0 = tokenSet,
                                               !.log.at = now]
       IN IF ~CanRefresh(tokens)
          THEN /\ fault = "none"
               /\ tokenSet' = tokenSet
               /\ Step(r, [rq EXCEPT !.pc = "done", !.response = "redirect_login"])
          ELSE IF fault = "install"
          THEN /\ tokenSet' = tokenSet
               /\ Step(r, [rq EXCEPT !.pc = "done", !.response = "redirect_login",
                                     !.log.clientThrew = TRUE])
          ELSE /\ tokenSet' = tokens
               /\ Step(r, [rq EXCEPT !.pc = "man_refresh", !.sent = tokens,
                                     !.installed = tokens, !.log.nRefresh = 1])
  /\ UNCHANGED <<file, minted, now, last, build, serial>>

\* GET /refresh: await xero.refreshToken() settles
ManualRefreshResponse(r) ==
  /\ NoneDone
  /\ req[r].pc = "man_refresh"
  /\ \/ \E writeOk \in BOOLEAN :
          LET new == TokenSetOf(minted + 1, now)
              sv == SaveTokens(file, new, now, writeOk)
          IN /\ minted < MaxGrants
             /\ Truthy(req[r].sent, "refresh_token")
             /\ minted' = minted + 1
             /\ tokenSet' = new
             /\ file' = sv.file
             /\ Step(r, [req[r] EXCEPT !.pc = "done", !.response = "redirect_home",
                                       !.newTokenSet = new, !.log.refreshOk = TRUE,
                                       !.log.nSave = 1, !.log.saveRet = sv.val])
     \/ /\ Step(r, [req[r] EXCEPT !.pc = "done", !.response = "redirect_login"])
        /\ UNCHANGED <<file, tokenSet, minted>>
  /\ UNCHANGED <<now, last, build, serial>>

\* GET /disconnect
StartDisconnect(r) ==
  /\ Arrives(r)
  /\ \E writeOk \in BOOLEAN :
       /\ file' = DeleteTokens(file, writeOk).file
       /\ Step(r, [Arrived(r, "disconnect") EXCEPT !.pc = "done",
                                                   !.response = "redirect_home"])
  /\ UNCHANGED <<tokenSet, minted, now, last, build, serial>>

\* time passes
Tick ==
  /\ NoneDone
  /\ now < MaxTime
  /\ now' = now + 1
  /\ req' = [q \in Reqs |-> [req[q] EXCEPT !.log.prev = NoPrev]]
  /\ prev' = NoPrev
  /\ UNCHANGED <<file, last, build, tokenSet, minted, serial>>

Handler(r) ==
  \/ StartPage(r)
  \/ StartReport(r)
  \/ RefreshResponse(r)
  \/ TenantsResponse(r)
  \/ ApiResponse(r)
  \/ StartCallback(r)
  \/ ExchangeResponse(r)
  \/ CallbackTenantsResponse(r)
  \/ StartRefresh(r)
  \/ ManualRefreshResponse(r)
  \/ StartDisconnect(r)
  \/ Finish(r)

Next == (\E r \in Reqs : Handler(r)) \/ Tick

\* the server with requests that overlap
Init ==
  /\ file \in StartFiles
  /\ now = 0
  /\ last = Called(NoCall, NoCall)
  /\ serial = FALSE
  /\ ServerStart

Spec == Init /\ [][Next]_vars

\* the server with requests that arrive one after the other
SerialInit ==
  /\ file \in StartFiles
  /\ now = 0
  /\ last = Called(NoCall, NoCall)
  /\ serial = TRUE
  /\ ServerStart

SerialSpec == SerialInit /\ [][Next]_vars

\* a call a handler awaits settles: the client resolves or rejects it
Settles(r) ==
  \/ RefreshResponse(r)
  \/ TenantsResponse(r)
  \/ ApiResponse(r)
  \/ ExchangeResponse(r)
  \/ CallbackTenantsResponse(r)
  \/ ManualRefreshResponse(r)

\* the serial server in which every awaited call settles and the handler
\* then runs on
FairSerialSpec == SerialSpec /\ \A r \in Reqs : WF_vars(Settles(r))

\* ------------------------------------------------------------- the claims

\* the handlers whose getStatus() has returned and whose log is kept
Returned(r) == req[r].log.returned

\* that getStatus() found an expired token, and both refreshToken() and
\* updateTenants() answered, the latter with at least one tenant
RefreshedAndResolved(r) ==
  /\ Returned(r)
  /\ req[r].log.needRefresh
  /\ req[r].log.refreshOk
  /\ req[r].log.discovery.state = "ok"
  /\ Len(req[r].log.discovery.list) > 0

\* the file holds the token set ts and a saved_at, and nothing else
FileHolds(ts) ==
  /\ file.exists
  /\ ~JSONParse(file.content).threw
  /\ LET rec == JSONParse(file.content).val
     IN /\ DOMAIN rec = DOMAIN ts \cup {"saved_at"}
        /\ \A f \in DOMAIN ts : rec[f] = ts[f]

\* C1 as stated: a getStatus() that finds an expired token, whose refresh and
\* tenant discovery succeed with a tenant, makes exactly one refresh call and
\* returns connected:true with the refreshed record in the store.
C1_AsStated ==
  \A r \in Reqs :
    RefreshedAndResolved(r) =>
      /\ req[r].log.nRefresh = 1
      /\ req[r].status.connected
      /\ FileHolds(req[r].newTokenSet)

\* C1 as amended: the same, the store holding the refreshed record provided
\* the write of saveTokens succeeded (requests not overlapping).
C1_RefreshedOnceAndPersisted ==
  \A r \in Reqs :
    RefreshedAndResolved(r) =>
      /\ req[r].log.nRefresh = 1
      /\ req[r].log.nSave = 1
      /\ req[r].status.connected
      /\ req[r].log.saveRet # Null => FileHolds(req[r].newTokenSet)

C1_Witness ==
  \E r \in Reqs :
    /\ RefreshedAndResolved(r)
    /\ req[r].log.saveRet # Null
    /\ req[r].log.store0 # file

\* C2: a getStatus() whose refresh call fails returns connected:false, no
\* exception leaves it, it makes no tenant-discovery call and no save, and the
\* file is what it was when getStatus() was called.
C2_RefreshFailureLeavesStore ==
  \A r \in Reqs :
    (Returned(r) /\ req[r].log.needRefresh /\ ~req[r].log.refreshOk) =>
      /\ ~req[r].log.escaped
      /\ ~req[r].status.connected
      /\ req[r].log.nRefresh = 1
      /\ req[r].log.nDiscover = 0
      /\ req[r].log.nSave = 0
      /\ file = req[r].log.store0

C2_Witness ==
  \E r \in Reqs :
    /\ Returned(r) /\ req[r].log.needRefresh /\ ~req[r].log.refreshOk
    /\ req[r].log.clientThrew

\* C3: no exception leaves getStatus(): it returns a ConnectionStatus, and
\* one with connected = false whenever a call of the client threw.
C3_NoExceptionEscapes ==
  \A r \in Reqs :
    /\ ~req[r].log.escaped
    /\ Returned(r) =>
         /\ req[r].status.connected \in BOOLEAN
         /\ req[r].status.tokens = req[r].tokens
         /\ req[r].log.clientThrew => ~req[r].status.connected

C3_Witness ==
  \E r \in Reqs :
    /\ Returned(r)
    /\ req[r].log.clientThrew
    /\ req[r].log.discovery.state = "fail"
    /\ req[r].log.refreshOk
    /\ req[r].log.saveRet = Null

\* C4 as stated: when a request issues tenant discovery or an accounting API
\* call, the access token in the client's token slot is the one that
\* request's own getStatus() installed or obtained by its refresh.
C4_AsStated ==
  \A r \in Reqs :
    req[r].pc \in {"tenants", "api"} =>
      /\ req[r].sent # Null
      /\ req[r].sent.access_token \in
           {ts.access_token : ts \in {req[r].installed, req[r].newTokenSet} \ {Null}}

\* C5: getStatus() returns connected = true exactly when it loaded a record
\* with a non-empty access token, the refresh, if one was needed, succeeded,
\* and tenant discovery answered with at least one tenant.
C5_ConnectedIff ==
  \A r \in Reqs :
    Returned(r) =>
      (req[r].status.connected <=>
         /\ req[r].tokens # Null
         /\ Truthy(req[r].tokens, "access_token")
         /\ req[r].log.needRefresh => req[r].log.refreshOk
         /\ req[r].log.discovery.state = "ok"
         /\ Len(req[r].log.discovery.list) > 0)

C5_Witness ==
  \E r \in Reqs :
    /\ Returned(r)
    /\ req[r].status.connected
    /\ req[r].status.tenantId = 2

\* C6 as stated: after a successful refresh the tokens field of the status
\* getStatus() returns is the refreshed record, not the one it loaded.
C6_AsStated ==
  \A r \in Reqs :
    (Returned(r) /\ req[r].log.refreshOk) =>
      /\ req[r].status.tokens # req[r].tokens
      /\ req[r].status.tokens \in {req[r].newTokenSet, req[r].log.saveRet}

\* C7 as stated: when the callback route ends with its error page, the file
\* is what it was when the request arrived.
C7_AsStated ==
  \A r \in Reqs :
    (req[r].route = "callback" /\ req[r].pc = "done"
       /\ req[r].response = "error_page") =>
      file = req[r].log.file0

\* C8 as stated: a getStatus() called right after another one returned, with
\* no step of any handler and no tick of the clock in between, returns the
\* same ConnectionStatus and makes no refresh call; also when the first one
\* refreshed.  (Stated for two calls in which no call of the client threw, no
\* read or write of the file failed and tenant discovery gave the same
\* answer, so that what differs is the doing of getStatus.)
C8_AsStated ==
  \A r \in Reqs :
    (Returned(r) /\ req[r].log.prev.valid /\ req[r].log.prev.clean
       /\ ~req[r].log.clientThrew /\ ~req[r].log.ioFailed
       /\ req[r].log.prev.discovery = req[r].log.discovery) =>
      /\ req[r].status = req[r].log.prev.status
      /\ req[r].log.nRefresh = 0

\* the file states load() treats as no credentials
Malformed(f, readOk) ==
  \/ ~f.exists
  \/ ~readOk
  \/ \A i \in DOMAIN f.content : f.content[i] = Ws
  \/ f.content = <<LBrace, RBrace>>
  \/ \E i \in DOMAIN f.content : f.content[i] = Junk

\* C9: load() on an absent file, an empty or blank one, one holding {}, one
\* that is not JSON, or one whose read fails, returns null and does not throw.
C9_LoadMalformedIsNull ==
  (last.call.op = "load" /\ Malformed(last.call.before, last.call.ok)) =>
    /\ last.call.ret = Null
    /\ ~last.call.threw

C9_Witness ==
  /\ last.call.op = "load"
  /\ last.call.ok
  /\ last.call.before = FileWith(<<LBrace, RBrace>>)
  /\ last.call.ret = Null

\* load() right after a save(r) whose write succeeded
LoadAfterSave ==
  /\ last.call.op = "load"
  /\ last.prior.op = "save"
  /\ last.prior.ok

\* what load() returns is r with saved_at set to the time of the save, and
\* save returned the same
RoundTrip ==
  LET r == last.prior.arg
      got == last.call.ret
  IN /\ got # Null
     /\ DOMAIN got = DOMAIN r \cup {"saved_at"}
     /\ got.saved_at = last.prior.at
     /\ \A f \in DOMAIN r \ {"saved_at"} : got[f] = r[f]
     /\ last.prior.ret = got

\* C10 as stated: for every record and every prior content of the file,
\* load() right after a save(r) that wrote returns r plus saved_at.
C10_AsStated == LoadAfterSave => RoundTrip

\* C10 as amended: the same, provided the read of that load() succeeds.
C10_SaveThenLoad == (LoadAfterSave /\ last.call.ok) => RoundTrip

C10_Witness ==
  /\ LoadAfterSave
  /\ last.call.ok
  /\ last.prior.before = FileWith(Stringify(Stamp(TokenSetOf(1, 0), 0)))
  /\ "refresh_token" \notin DOMAIN last.prior.arg
  /\ "refresh_token" \notin DOMAIN last.call.ret

\* load() right after a disconnect()
LoadAfterClear ==
  /\ last.call.op = "load"
  /\ last.prior.op = "clear"

\* C11 as stated: for every state of the store, load() right after
\* disconnect() returns null.
C11_AsStated == LoadAfterClear => last.call.ret = Null

\* C11 as amended: load() right after disconnect() returns null and does not
\* throw, provided the write of disconnect() did not fail (it makes none when
\* there is no file).
C11_ClearThenLoad ==
  (LoadAfterClear /\ (last.prior.ok \/ ~last.prior.before.exists)) =>
    /\ last.call.ret = Null
    /\ ~last.call.threw

C11_Witness ==
  /\ LoadAfterClear
  /\ last.prior.ok
  /\ last.call.ok
  /\ last.prior.before = FileWith(Stringify(Stamp(TokenSetOf(1, 0), 0)))
  /\ last.call.ret = Null

\* C15: a save(record) whose write fails returns null, does not throw, and
\* leaves the file as it was.
C15_FailedSaveIsSilent ==
  (last.call.op = "save" /\ ~last.call.ok) =>
    /\ last.call.ret = Null
    /\ ~last.call.threw
    /\ file = last.call.before

C15_Witness ==
  /\ last.call.op = "save"
  /\ ~last.call.ok
  /\ last.call.arg = TokenSetOf(2, now)
  /\ last.call.before = FileWith(Stringify(Stamp(TokenSetOf(1, 0), 0)))
  /\ file = last.call.before

\* C16 as stated: after clear() the file exists exactly when it existed
\* before, and when it exists its content is {}.
C16_AsStated ==
  last.call.op = "clear" =>
    /\ file.exists = last.call.before.exists
    /\ file.exists => file.content = <<LBrace, RBrace>>

\* C16 as amended: after clear() the file exists exactly when it existed
\* before; its content is {} when it exists and the write succeeded, and is
\* what it was when the write failed.
C16_ClearKeepsLocation ==
  last.call.op = "clear" =>
    /\ file.exists = last.call.before.exists
    /\ ~last.call.threw
    /\ (file.exists /\ last.call.ok) => file.content = <<LBrace, RBrace>>
    /\ (~file.exists \/ ~last.call.ok) => file = last.call.before

C16_Witness ==
  /\ last.call.op = "clear"
  /\ last.call.ok
  /\ last.call.before = FileWith(Stringify(Stamp(TokenSetOf(1, 0), 0)))
  /\ file = FileWith(<<LBrace, RBrace>>)

\* C12: getStatus() called on a file that holds no credentials (absent,
\* empty, blank, {} or not JSON) returns connected false, tenantId null,
\* tenantName '' and tokens null.
C12_UnauthenticatedStatus ==
  \A r \in Reqs :
    (Returned(r) /\ Malformed(req[r].log.store0, TRUE)) =>
      /\ req[r].status = NoStatus
      /\ req[r].log.nRefresh = 0
      /\ req[r].log.nDiscover = 0

C12_Witness ==
  \E r \in Reqs :
    /\ Returned(r)
    /\ req[r].log.store0 = FileWith(<<LBrace, Junk>>)
    /\ req[r].status = NoStatus

\* the token getStatus() loaded was expired when getStatus() was called
ExpiredAtCall(r) ==
  /\ req[r].tokens # Null
  /\ "expires_at" \in DOMAIN req[r].tokens
  /\ req[r].tokens.expires_at <= req[r].log.at

\* C13: a getStatus() whose tenant discovery answers with an empty list
\* returns connected false, tenantId null and tenantName '', whether or not
\* it had to refresh.
C13_NoTenantsNotConnected ==
  \A r \in Reqs :
    (Returned(r) /\ req[r].log.discovery = [state |-> "ok", list |-> <<>>]) =>
      /\ ~req[r].status.connected
      /\ req[r].status.tenantId = 0
      /\ req[r].status.tenantName = 0

C13_Witness ==
  \E r \in Reqs :
    /\ Returned(r)
    /\ req[r].log.discovery = [state |-> "ok", list |-> <<>>]
    /\ Truthy(req[r].tokens, "access_token")
    /\ ~ExpiredAtCall(r)
    /\ req[r].log.nRefresh = 0
    /\ ~req[r].status.connected

\* a GET /refresh that has answered
RefreshDone(r) == req[r].route = "refresh" /\ req[r].pc = "done"

C17_StoreFrame ==
  \A r \in Reqs :
    Returned(r) =>
      /\ file # req[r].log.store0 =>
           /\ ExpiredAtCall(r)
           /\ req[r].log.nRefresh = 1
           /\ req[r].log.refreshOk
      /\ ~Truthy(req[r].tokens, "access_token") =>
           /\ file = req[r].log.store0
           /\ tokenSet = req[r].log.slot0
           /\ req[r].log.nRefresh = 0
           /\ req[r].log.nDiscover = 0

C17_Witness ==
  \E r \in Reqs :
    /\ Returned(r)
    /\ ExpiredAtCall(r)
    /\ req[r].log.nRefresh = 1
    /\ ~req[r].log.refreshOk
    /\ file = req[r].log.store0
    /\ tokenSet # req[r].log.slot0

\* C18: in a getStatus() the record is loaded and installed before the
\* refresh call, the refresh call is made only for a token expired at the
\* call and before any save or tenant discovery, save follows a refresh that
\* succeeded, tenant discovery is called once a needed refresh has succeeded
\* and been saved, and each call is made at most once.
C18_StepOrder ==
  \A r \in Reqs :
    /\ req[r].pc = "refreshing" =>
         /\ req[r].installed = req[r].tokens
         /\ ExpiredAtCall(r)
         /\ req[r].log.nRefresh = 1
         /\ req[r].log.nSave = 0
         /\ req[r].log.nDiscover = 0
    /\ req[r].pc = "tenants" =>
         /\ req[r].installed = req[r].tokens
         /\ req[r].log.nDiscover = 1
         /\ ExpiredAtCall(r) =>
              /\ req[r].log.nRefresh = 1
              /\ req[r].log.refreshOk
              /\ req[r].log.nSave = 1
    /\ (req[r].pc \in {"refreshing", "tenants"} \/ Returned(r)) =>
         /\ req[r].log.nRefresh <= 1
         /\ req[r].log.nSave <= 1
         /\ req[r].log.nDiscover <= 1
         /\ req[r].log.nRefresh = 1 => ExpiredAtCall(r)
         /\ req[r].log.nSave = 1 => req[r].log.nRefresh = 1 /\ req[r].log.refreshOk
         /\ (req[r].log.nDiscover = 1 /\ ExpiredAtCall(r)) => req[r].log.refreshOk

C18_Witness ==
  \E r \in Reqs :
    /\ req[r].pc = "tenants"
    /\ ExpiredAtCall(r)
    /\ req[r].log.refreshOk
    /\ req[r].log.nSave = 1

\* the report views
ReportView(r) == req[r].route \in {"dashboard", "list"}

\* C19: a report view issues an accounting API call only after its
\* getStatus() returned connected true, and with the tenantId of that status;
\* when getStatus() returned connected false it redirects to the login and
\* has issued no accounting API call.
C19_ApiOnlyWhenConnected ==
  \A r \in Reqs :
    ReportView(r) =>
      /\ (req[r].phase = "main" /\ req[r].log.nApi > 0) =>
           /\ Returned(r)
           /\ req[r].status.connected
           /\ req[r].log.apiTenant = req[r].status.tenantId
      /\ req[r].pc = "api" => (req[r].phase = "main" /\ req[r].log.nApi > 0)
      /\ (req[r].phase = "main" /\ Returned(r) /\ ~req[r].status.connected) =>
           /\ req[r].pc = "done"
           /\ req[r].response = "redirect_login"
           /\ req[r].log.nApi = 0
      /\ req[r].response = "redirect_login" => req[r].log.nApi = 0

C19_Witness ==
  \E r \in Reqs :
    /\ req[r].route = "dashboard"
    /\ req[r].pc = "api"
    /\ req[r].log.nApi = 2
    /\ req[r].log.apiTenant = 2

\* what a report view that is being handled has answered so far
ReportAnswer(r) ==
  /\ ~req[r].log.escaped
  /\ req[r].response \in {"none", "render", "redirect_login", "error_page"}
  /\ req[r].response = "none" <=> req[r].pc # "done"
  /\ req[r].response = "error_page" <=> (req[r].pc = "done" /\ req[r].phase = "error")
  /\ (req[r].pc = "done" /\ req[r].phase = "error") =>
       /\ Returned(r)
       /\ req[r].log.nApi > 0
       /\ req[r].status.tokens = req[r].tokens
       /\ req[r].status.connected => req[r].log.discovery.state = "ok"

\* C20: a report view answers, once: it has no answer before it ends and one
\* of render, redirect to the login and error page when it ends, it always
\* ends, no exception leaves it, and when an accounting API call of it failed
\* the answer is the error page with the status a getStatus() called after
\* the failure returned.
C20_ReportAnswers ==
  /\ [](\A r \in Reqs : ReportView(r) => ReportAnswer(r))
  /\ \A r \in Reqs : (ReportView(r) /\ req[r].pc # "done") ~> (req[r].pc = "done")

C20_Witness ==
  \E r \in Reqs :
    /\ req[r].route = "dashboard"
    /\ req[r].pc = "done"
    /\ req[r].phase = "error"
    /\ req[r].response = "error_page"
    /\ req[r].log.nApi = 2
    /\ req[r].log.needRefresh

\* a callback that has answered with the redirect to the home page
CallbackSucceeded(r) ==
  /\ req[r].route = "callback"
  /\ req[r].pc = "done"
  /\ req[r].response = "redirect_home"

\* the file holds the token set of the code exchange, and a load() gives it
ExchangedRecordStored(r) ==
  /\ FileHolds(req[r].newTokenSet)
  /\ LoadTokens(file, TRUE).val # Null
  /\ LoadTokens(file, TRUE).val.access_token = req[r].newTokenSet.access_token

\* C21 as stated: when the callback route ends with the redirect to the home
\* page, the file holds the token set of the code exchange plus saved_at, and
\* a load() returns it.
C21_AsStated ==
  \A r \in Reqs : CallbackSucceeded(r) => ExchangedRecordStored(r)

\* C21 as amended: the same, provided the write of saveTokens succeeded
\* (requests not overlapping).
C21_CallbackPersists ==
  \A r \in Reqs :
    CallbackSucceeded(r) =>
      /\ req[r].log.nSave = 1
      /\ req[r].newTokenSet # Null
      /\ tokenSet = req[r].newTokenSet
      /\ req[r].log.saveRet # Null =>
           /\ ExchangedRecordStored(r)
           /\ LoadTokens(file, TRUE).val = req[r].log.saveRet

C21_Witness ==
  \E r \in Reqs :
    /\ CallbackSucceeded(r)
    /\ req[r].log.saveRet # Null
    /\ req[r].log.file0 = FileWith(Stringify(Stamp(TokenSetOf(1, 0), 0)))
    /\ file # req[r].log.file0

\* the file as disconnect() leaves it
Cleared == FileWith(<<LBrace, RBrace>>)

\* the code exchange of a callback succeeds in this step
ExchangeSucceeds ==
  \E r \in Reqs : req[r].pc = "exchange" /\ req'[r].pc = "cb_tenants"

\* C22 as stated: once disconnect() has cleared the file, load() returns null
\* until the code exchange of a callback succeeds: no other step takes the
\* file from {} to one that holds a record, whatever is in flight.
C22_AsStated ==
  [][(file = Cleared /\ LoadTokens(file', TRUE).val # Null) => ExchangeSucceeds]_vars

\* the files a save of a token set the authorization server has issued writes
SavedFiles ==
  {FileWith(Stringify(Stamp(TokenSetOf(g, t), t))) : g \in 2..minted, t \in 0..now}

\* C23: under any interleaving of the handlers the file is absent, empty or
\* blank, {}, or the whole record of one save call with its saved_at (one the
\* server found when it started, or one it saved); and every step that
\* changes the file leaves {} or exactly the record the save call of that
\* step was given, stamped with the time of the call.
C23_StoreIsWhole ==
  /\ [](file \in StartFiles \cup SavedFiles)
  /\ [][file' # file =>
          \/ file' = Cleared
          \/ file' = FileWith(Stringify(Stamp(TokenSetOf(minted', now), now)))]_vars

\* two refreshes of the same expired record that overlapped have both saved
C23_Witness ==
  \E r, q \in Reqs :
    /\ r # q
    /\ req[r].pc = "tenants" /\ req[q].pc = "tenants"
    /\ req[r].tokens = req[q].tokens
    /\ req[r].newTokenSet # Null /\ req[q].newTokenSet # Null
    /\ req[r].newTokenSet # req[q].newTokenSet
    /\ FileHolds(req[q].newTokenSet)

=============================================================================
